---------------------------- MODULE Spec2Model ----------------------------
(***************************************************************************)
(* A model of the heatshrink crate: Config (src/src/lib.rs), the encoder   *)
(* (src/src/encoder.rs) and the decoder state machine                      *)
(* (src/src/decoder.rs).                                                   *)
(*                                                                         *)
(* Buffers are sequences of bytes (0..255); a Rust index i is the TLA+     *)
(* index i + 1.  usize is taken to be at least 32 bits wide, so the usize  *)
(* arithmetic of the crate never overflows on the inputs considered; u8,   *)
(* u16 and u32 arithmetic keeps its width.  A panic (index out of bounds,  *)
(* failed assert!, overflow with overflow checks on) is the result         *)
(* "Panic".  Whether arithmetic overflow panics or wraps depends on the    *)
(* build (debug / release): the variable `checks` holds that choice.       *)
(***************************************************************************)
EXTENDS Integers, Sequences, FiniteSets, TLC

VARIABLES
    cfg,      \* the Config in use: [window_sz2, lookahead_sz2]
    checks,   \* TRUE: overflow checks on (debug build); FALSE: wrapping (release)
    enc,      \* the HeatshrinkEncoder and the locals of encode()
    tokens,   \* history: the tokens encode() chose, in order
    dec,      \* the HeatshrinkDecoder and the outcome of decode()
    last      \* the last Config call: [op, arg1, arg2, ok, ret]

vars == <<cfg, checks, enc, tokens, dec, last>>

-----------------------------------------------------------------------------
(* Bounds of the model *)

\* longest input given to encode()
MaxLen == 5
\* longest byte stream given to decode() directly
MaxDecLen == 3
\* largest output capacity tried when the capacity is free
MaxCap == 3

\* byte values inputs are drawn from
ByteVals == {0, 6, 255}
\* byte values raw decoder streams are drawn from
DecByteVals == {0, 7, 128, 255}

-----------------------------------------------------------------------------
(* Fixed-width integer helpers *)

Min(a, b) == IF a < b THEN a ELSE b

RECURSIVE BitOr(_, _)
\* a | b
BitOr(a, b) ==
    IF a = 0 THEN b
    ELSE IF b = 0 THEN a
    ELSE (IF a % 2 = 1 \/ b % 2 = 1 THEN 1 ELSE 0) + 2 * BitOr(a \div 2, b \div 2)

\* A u32 is kept as its two 16-bit halves, [hi, lo]: the model's integers are
\* narrower than 32 unsigned bits.
U32(v) == [hi |-> (v \div 65536) % 65536, lo |-> v % 65536]

\* x << n in u32, 0 <= n <= 16: bits shifted out are lost
Shl32(x, n) ==
    [hi |-> (x.hi % (2 ^ (16 - n))) * (2 ^ n) + (x.lo \div (2 ^ (16 - n))),
     lo |-> (x.lo % (2 ^ (16 - n))) * (2 ^ n)]

\* x >> n in u32, 0 <= n < 32
Shr32(x, n) ==
    IF n >= 16
    THEN [hi |-> 0, lo |-> x.hi \div (2 ^ (n - 16))]
    ELSE [hi |-> x.hi \div (2 ^ n),
          lo |-> (x.lo \div (2 ^ n)) + (x.hi % (2 ^ n)) * (2 ^ (16 - n))]

\* x | v in u32, v a u8 or u16 widened
Or32(x, v) == [hi |-> x.hi, lo |-> BitOr(x.lo, v)]

\* x & ((1 << n) - 1) in u32, 0 <= n <= 16
Mask32(x, n) == [hi |-> 0, lo |-> x.lo % (2 ^ n)]

\* x as u8 / x as u16 of a u32
U32AsU8(x) == x.lo % 256
U32AsU16(x) == x.lo

\* x as u8 / x as u16
AsU8(x) == x % 256
AsU16(x) == x % 65536

\* all sequences over S of length 0..n
SeqsUpTo(S, n) == UNION {[1..k -> S] : k \in 0..n}

\* a buffer of cap zero bytes
Zeros(cap) == [i \in 1..cap |-> 0]

-----------------------------------------------------------------------------
(* Config: src/src/lib.rs *)

default == [window_sz2 |-> 11, lookahead_sz2 |-> 4]

\* Result<Self, &str> as [ok, cfg]
with_window(self, window_sz2) ==
    IF window_sz2 > 16 THEN [ok |-> FALSE, cfg |-> self]
    ELSE IF window_sz2 = 0 THEN [ok |-> FALSE, cfg |-> self]
    ELSE [ok |-> TRUE, cfg |-> [self EXCEPT !.window_sz2 = window_sz2]]

\* with_lookahead without its zero check
with_lookahead_nozero(self, lookahead_sz2) ==
    IF lookahead_sz2 > 16 THEN [ok |-> FALSE, cfg |-> self]
    ELSE [ok |-> TRUE, cfg |-> [self EXCEPT !.lookahead_sz2 = lookahead_sz2]]

with_lookahead(self, lookahead_sz2) ==
    IF lookahead_sz2 > 16 THEN [ok |-> FALSE, cfg |-> self]
    ELSE IF lookahead_sz2 = 0 THEN [ok |-> FALSE, cfg |-> self]
    ELSE [ok |-> TRUE, cfg |-> [self EXCEPT !.lookahead_sz2 = lookahead_sz2]]

\* Config::default().with_window(w).and_then(|c| c.with_lookahead(l))
new(window_sz2, lookahead_sz2) ==
    LET r == with_window(default, window_sz2)
    IN  IF r.ok THEN with_lookahead(r.cfg, lookahead_sz2) ELSE r

-----------------------------------------------------------------------------
(* Decoder: src/src/decoder.rs *)

\* HeatshrinkDecoder::new, with the outcome of decode() still open
DecoderNew(input, output) ==
    [ output_count |-> 0, output_index |-> 0, state |-> "HSDSTagBit",
      head_index |-> 0, bit_index |-> 0, input |-> input, output |-> output,
      result |-> "running", panic |-> "none", ret |-> <<>> ]

\* a panic inside a method of the decoder
DecPanic(d, why) == [d EXCEPT !.result = "Panic", !.panic = why]

RECURSIVE get_bits_loop(_, _, _, _, _)
\* the while loop of get_bits: pulls whole bytes until num >= count
get_bits_loop(input, bit_index, bitbuf, num, count) ==
    IF num < count
    THEN LET bi == bit_index + 8
         IN  IF bi \div 8 >= Len(input)
             THEN [oob |-> TRUE, bitbuf |-> U32(0), num |-> 0]
             ELSE get_bits_loop(input, bi,
                                Or32(Shl32(bitbuf, 8), input[(bi \div 8) + 1]),
                                num + 8, count)
    ELSE [oob |-> FALSE, bitbuf |-> bitbuf, num |-> num]

\* get_bits that only checks that the cursor is inside the input, not that
\* count bits remain
get_bits_unguarded(d, count) ==
    LET end_pos == d.bit_index + count
    IN  IF d.bit_index >= Len(d.input) * 8
        THEN [tag |-> "None", val |-> 0, bit_index |-> d.bit_index]
        ELSE LET r == get_bits_loop(d.input, d.bit_index,
                                    U32(d.input[(d.bit_index \div 8) + 1]),
                                    8 - (d.bit_index % 8), count)
             IN  IF r.oob
                 THEN [tag |-> "Oob", val |-> 0, bit_index |-> d.bit_index]
                 ELSE [tag |-> "Some",
                       val |-> U32AsU16(Mask32(Shr32(r.bitbuf, r.num - count), count)),
                       bit_index |-> end_pos]

\* Option<u16> and the new bit_index: tag is "Some", "None" or "Oob" (an input
\* index out of bounds, which panics)
get_bits(d, count) ==
    LET end_pos == d.bit_index + count
    IN  IF end_pos > Len(d.input) * 8
        THEN [tag |-> "None", val |-> 0, bit_index |-> d.bit_index]
        ELSE IF d.bit_index \div 8 >= Len(d.input)
        THEN [tag |-> "Oob", val |-> 0, bit_index |-> d.bit_index]
        ELSE LET r == get_bits_loop(d.input, d.bit_index,
                                    U32(d.input[(d.bit_index \div 8) + 1]),
                                    8 - (d.bit_index % 8), count)
             IN  IF r.oob
                 THEN [tag |-> "Oob", val |-> 0, bit_index |-> d.bit_index]
                 ELSE [tag |-> "Some",
                       val |-> U32AsU16(Mask32(Shr32(r.bitbuf, r.num - count), count)),
                       bit_index |-> end_pos]

\* v += 1 on a u16 field: panics with overflow checks, wraps without
Inc16(d, v) ==
    IF v + 1 > 65535
    THEN IF checks THEN [panic |-> TRUE, val |-> v] ELSE [panic |-> FALSE, val |-> 0]
    ELSE [panic |-> FALSE, val |-> v + 1]

st_tag_bit(d) ==
    LET g == get_bits(d, 1)
    IN  IF g.tag = "Oob" THEN DecPanic(d, "read_oob")
        ELSE IF g.tag = "None" THEN [d EXCEPT !.state = "HSDSNeedMoreData"]
        ELSE IF g.val = 0
        THEN IF cfg.window_sz2 > 8
             THEN [d EXCEPT !.bit_index = g.bit_index, !.state = "HSDSBackrefIndexMsb"]
             ELSE [d EXCEPT !.bit_index = g.bit_index, !.output_index = 0,
                            !.state = "HSDSBackrefIndexLsb"]
        ELSE [d EXCEPT !.bit_index = g.bit_index, !.state = "HSDSYieldLiteral"]

st_yield_literal(d) ==
    LET g == get_bits(d, 8)
    IN  IF g.tag = "Oob" THEN DecPanic(d, "read_oob")
        ELSE IF g.tag = "None" THEN [d EXCEPT !.state = "HSDSNeedMoreData"]
        ELSE IF d.head_index >= Len(d.output)
        THEN DecPanic([d EXCEPT !.bit_index = g.bit_index], "write_oob")
        ELSE [d EXCEPT !.bit_index = g.bit_index,
                       !.output[d.head_index + 1] = AsU8(g.val),
                       !.head_index = d.head_index + 1,
                       !.state = "HSDSTagBit"]

st_backref_index_msb(d) ==
    LET bit_ct == cfg.window_sz2 - 8
        g == get_bits(d, bit_ct)
    IN  IF g.tag = "Oob" THEN DecPanic(d, "read_oob")
        ELSE IF g.tag = "None" THEN [d EXCEPT !.state = "HSDSNeedMoreData"]
        ELSE [d EXCEPT !.bit_index = g.bit_index,
                       !.output_index = AsU16(g.val * 256),
                       !.state = "HSDSBackrefIndexLsb"]

st_backref_index_lsb(d) ==
    LET bit_ct == Min(cfg.window_sz2, 8)
        g == get_bits(d, bit_ct)
        inc == Inc16(d, BitOr(d.output_index, g.val))
    IN  IF g.tag = "Oob" THEN DecPanic(d, "read_oob")
        ELSE IF g.tag = "None" THEN [d EXCEPT !.state = "HSDSNeedMoreData"]
        ELSE IF inc.panic
        THEN DecPanic([d EXCEPT !.bit_index = g.bit_index], "overflow")
        ELSE [d EXCEPT !.bit_index = g.bit_index,
                       !.output_index = inc.val,
                       !.output_count = 0,
                       !.state = IF cfg.lookahead_sz2 > 8
                                 THEN "HSDSBackrefCountMsb"
                                 ELSE "HSDSBackrefCountLsb"]

st_backref_count_msb(d) ==
    LET bit_ct == cfg.lookahead_sz2 - 8
        g == get_bits(d, bit_ct)
    IN  IF g.tag = "Oob" THEN DecPanic(d, "read_oob")
        ELSE IF g.tag = "None" THEN [d EXCEPT !.state = "HSDSNeedMoreData"]
        ELSE [d EXCEPT !.bit_index = g.bit_index,
                       !.output_count = AsU16(g.val * 256),
                       !.state = "HSDSBackrefIndexLsb"]

st_backref_count_lsb(d) ==
    LET bit_ct == Min(cfg.lookahead_sz2, 8)
        g == get_bits(d, bit_ct)
        inc == Inc16(d, BitOr(d.output_count, g.val))
    IN  IF g.tag = "Oob" THEN DecPanic(d, "read_oob")
        ELSE IF g.tag = "None" THEN [d EXCEPT !.state = "HSDSNeedMoreData"]
        ELSE IF inc.panic
        THEN DecPanic([d EXCEPT !.bit_index = g.bit_index], "overflow")
        ELSE [d EXCEPT !.bit_index = g.bit_index,
                       !.output_count = inc.val,
                       !.state = "HSDSYieldBackref"]

\* the copy as a block copy of the bytes as they were before it, which does not
\* see the bytes the same copy wrote
backref_copy_block(output, head_index, start_in, i, count) ==
    [k \in 1..Len(output) |->
        IF k > head_index /\ k <= head_index + (count - i)
        THEN output[start_in + i + (k - head_index)]
        ELSE output[k]]

RECURSIVE backref_copy(_, _, _, _, _)
\* for i in 0..count { output[head_index] = output[start_in + i]; head_index += 1 }
backref_copy(output, head_index, start_in, i, count) ==
    IF i >= count THEN output
    ELSE backref_copy([output EXCEPT ![head_index + 1] = output[start_in + i + 1]],
                      head_index + 1, start_in, i + 1, count)

st_yield_backref(d) ==
    LET count == d.output_count
        start_in == d.head_index - d.output_index
    IN  IF d.output_index > d.head_index
        THEN [d EXCEPT !.state = "IllegalBackref"]
        ELSE IF d.head_index + count > Len(d.output)
        THEN [d EXCEPT !.state = "OutputFull"]
        ELSE [d EXCEPT !.output = backref_copy(d.output, d.head_index, start_in, 0, count),
                       !.head_index = d.head_index + count,
                       !.state = "HSDSTagBit"]

\* the states decode() leaves the loop in
Terminal == {"HSDSNeedMoreData", "OutputFull", "IllegalBackref"}

\* a return of the whole output buffer, written or not
DecOk_whole(d) == [d EXCEPT !.result = "Ok", !.ret = d.output]

\* Ok(&self.output[..self.head_index])
DecOk(d) == [d EXCEPT !.result = "Ok", !.ret = SubSeq(d.output, 1, d.head_index)]

\* the match of decode(): the handler of the current state
decode_match(d) ==
    CASE d.state = "HSDSTagBit" -> st_tag_bit(d)
      [] d.state = "HSDSYieldLiteral" -> st_yield_literal(d)
      [] d.state = "HSDSBackrefIndexMsb" -> st_backref_index_msb(d)
      [] d.state = "HSDSBackrefIndexLsb" -> st_backref_index_lsb(d)
      [] d.state = "HSDSBackrefCountMsb" -> st_backref_count_msb(d)
      [] d.state = "HSDSBackrefCountLsb" -> st_backref_count_lsb(d)
      [] d.state = "HSDSYieldBackref" -> st_yield_backref(d)

\* one iteration of the loop of decode()
decode_iter(d) ==
    IF d.state = "HSDSNeedMoreData" THEN DecOk(d)
    ELSE IF d.state = "OutputFull" THEN [d EXCEPT !.result = "OutputFull"]
    ELSE IF d.state = "IllegalBackref" THEN [d EXCEPT !.result = "IllegalBackref"]
    ELSE LET d1 == decode_match(d)
         IN  IF d1.result = "Panic" THEN d1
             ELSE IF Len(d1.input) * 8 < d1.bit_index THEN DecOk(d1)
             ELSE IF Len(d1.output) < d1.head_index
             THEN [d1 EXCEPT !.result = "OutputFull"]
             ELSE d1

RECURSIVE decode_run(_)
\* decode(): the loop run until it returns
decode_run(d) == IF d.result # "running" THEN d ELSE decode_run(decode_iter(d))

\* decode(): one loop iteration
DecStep ==
    /\ dec.result = "running"
    /\ dec' = decode_iter(dec)
    /\ UNCHANGED <<cfg, checks, enc, tokens, last>>

-----------------------------------------------------------------------------
(* Encoder: src/src/encoder.rs *)

\* HeatshrinkEncoder::new and `let mut pos = 0` of encode()
EncoderNew(input, output) ==
    [ bit_index |-> 0, bit_buf |-> U32(0), num_bits |-> 0,
      input |-> input, output |-> output, pos |-> 0,
      result |-> "running", panic |-> "none", ret |-> <<>> ]

\* a panic inside a method of the encoder
EncPanic(e, why) == [e EXCEPT !.result = "Panic", !.panic = why]

RECURSIVE cmp_scan(_, _, _, _, _)
\* the iterator chain of cmp: the index of the first mismatch, or size
cmp_scan(input, idx1, idx2, i, size) ==
    IF i >= size THEN size
    ELSE IF input[idx1 + i + 1] # input[idx2 + i + 1] THEN i
    ELSE cmp_scan(input, idx1, idx2, i + 1, size)

\* cmp(idx1, idx2), called with idx1 < idx2 only
cmp(input, idx1, idx2) ==
    LET size0 == 2 ^ cfg.lookahead_sz2
        end == Min(Len(input), idx2 + size0)
        size == end - idx2
    IN  cmp_scan(input, idx1, idx2, 0, size)

RECURSIVE search_loop_first(_, _, _, _)
\* the scan keeping the first of several equally long matches
search_loop_first(input, pos, head, best) ==
    IF pos >= head THEN best
    ELSE LET clen == cmp(input, pos, head)
         IN  search_loop_first(input, pos + 1, head,
                               IF clen > best[2] THEN <<pos, clen>> ELSE best)

RECURSIVE search_loop(_, _, _, _)
\* for pos in start..head of search
search_loop(input, pos, head, best) ==
    IF pos >= head THEN best
    ELSE LET clen == cmp(input, pos, head)
         IN  search_loop(input, pos + 1, head,
                         IF clen >= best[2] THEN <<pos, clen>> ELSE best)

\* a search that scans from the start of the input, whatever the window
search_unwindowed(input, head) == search_loop(input, 0, head, <<0, 0>>)

\* search(head) = (spos, len)
search(input, head) ==
    LET wsize == 2 ^ cfg.window_sz2
        start == IF wsize > head THEN 0 ELSE head - wsize
    IN  search_loop(input, start, head, <<0, 0>>)

\* `1 << bit_cnt as u16` in emit_bits' assert, a u16 shift: a shift by 16 is an
\* overflow, which panics in a checked build and shifts by bit_cnt % 16 otherwise
emit_limit(bit_cnt) ==
    IF bit_cnt >= 16
    THEN IF checks THEN [overflow |-> TRUE, val |-> 0]
                   ELSE [overflow |-> FALSE, val |-> 2 ^ (bit_cnt % 16)]
    ELSE [overflow |-> FALSE, val |-> 2 ^ bit_cnt]

RECURSIVE emit_drain_late(_)
\* a while loop that leaves a full byte pending: `> 8` for `>= 8`
emit_drain_late(e) ==
    IF e.num_bits > 8
    THEN IF e.bit_index >= Len(e.output)
         THEN [e EXCEPT !.result = "OutputFull"]
         ELSE emit_drain_late([e EXCEPT
                  !.output[e.bit_index + 1] = U32AsU8(Shr32(e.bit_buf, e.num_bits - 8)),
                  !.bit_index = e.bit_index + 1,
                  !.num_bits = e.num_bits - 8])
    ELSE e

RECURSIVE emit_drain(_)
\* the while loop of emit_bits
emit_drain(e) ==
    IF e.num_bits >= 8
    THEN IF e.bit_index >= Len(e.output)
         THEN [e EXCEPT !.result = "OutputFull"]
         ELSE emit_drain([e EXCEPT
                  !.output[e.bit_index + 1] = U32AsU8(Shr32(e.bit_buf, e.num_bits - 8)),
                  !.bit_index = e.bit_index + 1,
                  !.num_bits = e.num_bits - 8])
    ELSE e

\* emit_bits(val, bit_cnt); a call after an earlier `?` returned is not made
emit_bits(e, val, bit_cnt) ==
    IF e.result # "running" THEN e
    ELSE LET lim == emit_limit(bit_cnt)
         IN  IF lim.overflow THEN EncPanic(e, "overflow")
             ELSE IF ~(val < lim.val) THEN EncPanic(e, "assert")
             ELSE emit_drain([e EXCEPT
                      !.bit_buf = Or32(Shl32(e.bit_buf, bit_cnt), val),
                      !.num_bits = e.num_bits + bit_cnt])

\* flush that writes the pending bits without moving them to the top of the byte
flush_unshifted(e) ==
    IF e.num_bits > 0
    THEN IF e.bit_index >= Len(e.output)
         THEN EncPanic(e, "write_oob")
         ELSE [e EXCEPT
                  !.output[e.bit_index + 1] = U32AsU8(e.bit_buf),
                  !.bit_index = e.bit_index + 1,
                  !.num_bits = 0]
    ELSE e

flush(e) ==
    IF e.num_bits > 0
    THEN IF e.bit_index >= Len(e.output)
         THEN EncPanic(e, "write_oob")
         ELSE [e EXCEPT
                  !.output[e.bit_index + 1] = U32AsU8(Shl32(e.bit_buf, 8 - e.num_bits)),
                  !.bit_index = e.bit_index + 1,
                  !.num_bits = 0]
    ELSE e

\* threshold of encode()
\* a threshold that counts the token in 16-bit units
threshold_halved == (1 + cfg.lookahead_sz2 + cfg.window_sz2) \div 16

threshold == (1 + cfg.lookahead_sz2 + cfg.window_sz2) \div 8

\* the choice with a backreference already at a match of threshold bytes
encode_choice_ge(e) ==
    LET m == search(e.input, e.pos)
    IN  IF m[2] >= threshold /\ m[2] > 0
        THEN [lit |-> FALSE, byte |-> 0, rel |-> e.pos - m[1], len |-> m[2]]
        ELSE [lit |-> TRUE, byte |-> e.input[e.pos + 1], rel |-> 0, len |-> 1]

\* the token the loop body of encode() chooses at e.pos
encode_choice(e) ==
    LET m == search(e.input, e.pos)
    IN  IF m[2] > threshold
        THEN [lit |-> FALSE, byte |-> 0, rel |-> e.pos - m[1], len |-> m[2]]
        ELSE [lit |-> TRUE, byte |-> e.input[e.pos + 1], rel |-> 0, len |-> 1]

\* the loop body of encode()
encode_iter(e) ==
    LET t == encode_choice(e)
    IN  IF ~t.lit
        THEN LET e1 == emit_bits(e, 0, 1)
                 e2 == emit_bits(e1, AsU16(t.rel - 1), cfg.window_sz2)
                 e3 == emit_bits(e2, AsU16(t.len - 1), cfg.lookahead_sz2)
             IN  IF e3.result = "running"
                 THEN [e3 EXCEPT !.pos = e.pos + t.len]
                 ELSE e3
        ELSE LET code == BitOr(t.byte, 256)
                 e1 == emit_bits(e, code, 9)
             IN  IF e1.result = "running"
                 THEN [e1 EXCEPT !.pos = e.pos + 1]
                 ELSE e1

\* flush and the return of encode()
encode_finish(e) ==
    LET e1 == flush(e)
    IN  IF e1.result = "Panic" THEN e1
        ELSE [e1 EXCEPT !.result = "Ok", !.ret = SubSeq(e1.output, 1, e1.bit_index)]

\* encode(): one iteration of the while loop
EncStep ==
    /\ enc.result = "running"
    /\ enc.pos < Len(enc.input)
    /\ enc' = encode_iter(enc)
    /\ tokens' = Append(tokens, encode_choice(enc))
    /\ UNCHANGED <<cfg, checks, dec, last>>

\* encode(): the loop is over; flush and return
EncFinish ==
    /\ enc.result = "running"
    /\ enc.pos >= Len(enc.input)
    /\ enc' = encode_finish(enc)
    /\ UNCHANGED <<cfg, checks, tokens, dec, last>>

-----------------------------------------------------------------------------
(* Calls and specifications *)

\* the (window_sz2, lookahead_sz2) pairs tried: the default, the smallest, the
\* 8-bit boundary on either side, and the 16-bit limit
Configs ==
    { [window_sz2 |-> c[1], lookahead_sz2 |-> c[2]] :
        c \in { <<11, 4>>, <<1, 1>>, <<4, 3>>, <<8, 8>>, <<9, 4>>, <<4, 9>>,
                <<9, 9>>, <<16, 2>>, <<16, 4>>, <<2, 16>>, <<16, 16>> } }

\* no decoder yet
DecIdle == [DecoderNew(<<>>, <<>>) EXCEPT !.result = "idle"]
\* no encoder
EncIdle == [EncoderNew(<<>>, <<>>) EXCEPT !.result = "idle"]
\* no Config call yet
NoCall == [op |-> "none", arg1 |-> 0, arg2 |-> 0, ok |-> TRUE, ret |-> default]

\* the buffer sizes of the round-trip callers: 2 * len + 16
BufSize(n) == 2 * n + 16

\* encode(x, out, cfg) is called with a generous buffer, as compare() and the
\* encode_decode fuzz target do
InitRoundTrip(cs) ==
    /\ cfg \in cs
    /\ checks \in BOOLEAN
    /\ \E x \in SeqsUpTo(ByteVals, MaxLen) :
          enc = EncoderNew(x, Zeros(BufSize(Len(x))))
    /\ tokens = <<>>
    /\ dec = DecIdle
    /\ last = NoCall

Init == InitRoundTrip(Configs)

\* decode(out1, dst2, cfg) on what encode returned, into a buffer of len(x) or
\* of 2 * len(x) + 16 bytes
CallDecode ==
    /\ enc.result = "Ok"
    /\ dec.result = "idle"
    /\ \E cap \in {Len(enc.input), BufSize(Len(enc.input))} :
          dec' = DecoderNew(enc.ret, Zeros(cap))
    /\ UNCHANGED <<cfg, checks, enc, tokens, last>>

Next == EncStep \/ EncFinish \/ CallDecode \/ DecStep

\* round trip under every configuration of Configs
Spec == Init /\ [][Next]_vars

\* round trip under Config::default()
InitDefault == InitRoundTrip({default})
SpecDefault == InitDefault /\ [][Next]_vars

\* encode alone, into a buffer of any capacity 0..MaxCap, under the
\* configurations whose fields are narrower than 16 bits
EncConfigs == {c \in Configs : c.window_sz2 < 16 /\ c.lookahead_sz2 < 16}

InitEnc ==
    /\ cfg \in EncConfigs
    /\ checks \in BOOLEAN
    /\ \E x \in SeqsUpTo(ByteVals, MaxLen) : \E cap \in 0..MaxCap :
          enc = EncoderNew(x, Zeros(cap))
    /\ tokens = <<>>
    /\ dec = DecIdle
    /\ last = NoCall

NextEnc == EncStep \/ EncFinish

SpecEnc == InitEnc /\ [][NextEnc]_vars

\* decode alone, on any byte stream and into a buffer of any capacity
\* 0..MaxCap, as the decode_random fuzz target does
InitDec ==
    /\ cfg \in Configs
    /\ checks \in BOOLEAN
    /\ \E s \in SeqsUpTo(DecByteVals, MaxDecLen) : \E cap \in 0..MaxCap :
          dec = DecoderNew(s, Zeros(cap))
    /\ tokens = <<>>
    /\ enc = EncIdle
    /\ last = NoCall

NextDec == DecStep

SpecDec == InitDec /\ [][NextDec]_vars

\* the u8 arguments given to the Config constructors: both sides of either
\* limit of the range check, the defaults, and values in between and beyond
U8Args == {0, 1, 4, 8, 11, 15, 16, 17, 128, 255}

\* the record of a Config call: the operation, its arguments and its Result
Call(op, a1, a2, r) == [op |-> op, arg1 |-> a1, arg2 |-> a2, ok |-> r.ok, ret |-> r.cfg]

\* Config::default()
CfgDefault ==
    /\ last' = Call("default", 0, 0, [ok |-> TRUE, cfg |-> default])
    /\ cfg' = default
    /\ UNCHANGED <<checks, enc, tokens, dec>>

\* Config::new(w, l); an Err leaves the caller's Config as it was
CfgNew ==
    \E w \in U8Args : \E l \in U8Args :
        /\ last' = Call("new", w, l, new(w, l))
        /\ cfg' = IF new(w, l).ok THEN new(w, l).cfg ELSE cfg
        /\ UNCHANGED <<checks, enc, tokens, dec>>

\* cfg.with_window(w); Config is Copy, so an Err leaves cfg as it was
CfgWithWindow ==
    \E w \in U8Args :
        /\ last' = Call("with_window", w, 0, with_window(cfg, w))
        /\ cfg' = IF with_window(cfg, w).ok THEN with_window(cfg, w).cfg ELSE cfg
        /\ UNCHANGED <<checks, enc, tokens, dec>>

\* cfg.with_lookahead(l)
CfgWithLookahead ==
    \E l \in U8Args :
        /\ last' = Call("with_lookahead", 0, l, with_lookahead(cfg, l))
        /\ cfg' = IF with_lookahead(cfg, l).ok THEN with_lookahead(cfg, l).cfg ELSE cfg
        /\ UNCHANGED <<checks, enc, tokens, dec>>

InitCfg ==
    /\ cfg = default
    /\ checks = FALSE
    /\ enc = EncIdle
    /\ tokens = <<>>
    /\ dec = DecIdle
    /\ last = NoCall

NextCfg == CfgDefault \/ CfgNew \/ CfgWithWindow \/ CfgWithLookahead

SpecCfg == InitCfg /\ [][NextCfg]_vars

-----------------------------------------------------------------------------
(* Properties *)

\* encode() has returned / decode() has returned
EncDone == enc.result \notin {"idle", "running"}
DecDone == dec.result \notin {"idle", "running"}

\* the tokens encode() chose include a backreference
UsedBackref == \E i \in 1..Len(tokens) : ~tokens[i].lit

(* The wire format of the stream, for the properties: tokens packed       *)
(* most-significant-bit first, a literal as 1 + 8 bits, a backreference as  *)
(* 0 + w bits of distance - 1 + l bits of length - 1.                       *)

\* bit i (from 0, most significant first) of the byte stream s
BitAt(s, i) == (s[(i \div 8) + 1] \div (2 ^ (7 - (i % 8)))) % 2

RECURSIVE Field(_, _, _)
\* the n bits of s from bit i on, as a number
Field(s, i, n) == IF n = 0 THEN 0 ELSE 2 * Field(s, i, n - 1) + BitAt(s, i + n - 1)

RECURSIVE WireCopy(_, _, _)
\* out extended by n bytes, each the byte d places before the end when written
WireCopy(out, d, n) ==
    IF n = 0 THEN out ELSE WireCopy(Append(out, out[Len(out) - d + 1]), d, n - 1)

RECURSIVE WireRun(_, _, _, _)
\* what the wire format says of the stream s from bit i on, with out produced
\* so far and room for cap bytes: the expansion of its complete tokens, up to
\* the first backreference that points before the start (IllegalBackref) or
\* token that does not fit (OutputFull); pos is where the last complete token
\* ends
WireRun(s, i, out, cap) ==
    LET w == cfg.window_sz2
        l == cfg.lookahead_sz2
        nbits == 8 * Len(s)
        stop == [result |-> "Ok", out |-> out, pos |-> i]
    IN  IF i + 1 > nbits THEN stop
        ELSE IF BitAt(s, i) = 1
        THEN IF i + 9 > nbits THEN stop
             ELSE IF Len(out) + 1 > cap
             THEN [result |-> "OutputFull", out |-> out, pos |-> i]
             ELSE WireRun(s, i + 9, Append(out, Field(s, i + 1, 8)), cap)
        ELSE IF i + 1 + w + l > nbits THEN stop
             ELSE LET d == Field(s, i + 1, w) + 1
                      n == Field(s, i + 1 + w, l) + 1
                  IN  IF d > Len(out)
                      THEN [result |-> "IllegalBackref", out |-> out, pos |-> i]
                      ELSE IF Len(out) + n > cap
                      THEN [result |-> "OutputFull", out |-> out, pos |-> i]
                      ELSE WireRun(s, i + 1 + w + l, WireCopy(out, d, n), cap)

\* the wire format's reading of the decoder's call
Wire == WireRun(dec.input, 0, <<>>, Len(dec.output))

\* v in n bits, most significant first
Bits(v, n) == [k \in 1..n |-> (v \div (2 ^ (n - k))) % 2]

\* the bits of a token
TokenBits(t) ==
    IF t.lit THEN <<1>> \o Bits(t.byte, 8)
    ELSE <<0>> \o Bits(t.rel - 1, cfg.window_sz2) \o Bits(t.len - 1, cfg.lookahead_sz2)

RECURSIVE StreamBits(_)
\* the bits of a token sequence
StreamBits(ts) == IF ts = <<>> THEN <<>> ELSE TokenBits(Head(ts)) \o StreamBits(Tail(ts))

\* bits packed into bytes, the last byte padded with zero bits
Pack(bits) ==
    LET bit(k) == IF k <= Len(bits) THEN bits[k] ELSE 0
    IN  [j \in 1..((Len(bits) + 7) \div 8) |->
            128 * bit(8 * j - 7) + 64 * bit(8 * j - 6) + 32 * bit(8 * j - 5)
            + 16 * bit(8 * j - 4) + 8 * bit(8 * j - 3) + 4 * bit(8 * j - 2)
            + 2 * bit(8 * j - 1) + bit(8 * j)]

\* the bits a decoder state reads
BitsNeeded(st) ==
    CASE st = "HSDSTagBit" -> 1
      [] st = "HSDSYieldLiteral" -> 8
      [] st = "HSDSBackrefIndexMsb" -> cfg.window_sz2 - 8
      [] st = "HSDSBackrefIndexLsb" -> Min(cfg.window_sz2, 8)
      [] st = "HSDSBackrefCountMsb" -> cfg.lookahead_sz2 - 8
      [] st = "HSDSBackrefCountLsb" -> Min(cfg.lookahead_sz2, 8)
      [] OTHER -> 0

\* C1: round trip for every valid configuration: encode into 2 * len + 16 bytes
\* returns Ok(s), and decode(s) into at least len bytes returns Ok(y) with y = x.
C1_RoundTrip ==
    /\ EncDone => enc.result = "Ok"
    /\ DecDone => dec.result = "Ok" /\ dec.ret = enc.input

\* C2: round trip under the default configuration (11, 4): encode into
\* 2 * len + 16 bytes never fails, decode of its result into 2 * len + 16 bytes
\* never fails, and the decoded bytes are the input.
C2_RoundTripDefault ==
    /\ cfg = default
    /\ EncDone => enc.result = "Ok"
    /\ (DecDone /\ Len(dec.output) = BufSize(Len(enc.input)))
          => dec.result = "Ok" /\ dec.ret = enc.input

\* a round trip through a backreference has completed
C2_Witness ==
    /\ cfg = default
    /\ UsedBackref
    /\ dec.result = "Ok"
    /\ Len(dec.output) = BufSize(Len(enc.input))
    /\ dec.ret = enc.input

\* C3: encode never writes at an index >= the output capacity, and whenever
\* the compressed stream, its final flushed partial byte included, does not
\* fit, the call returns OutputFull (so [6] into a 1-byte buffer is OutputFull).
C3_EncodeBounded ==
    /\ enc.bit_index <= Len(enc.output)
    /\ (EncDone /\ Len(Pack(StreamBits(tokens))) > Len(enc.output))
          => enc.result = "OutputFull"

\* C4: under the default configuration decode, on any byte stream and with any
\* output capacity, never writes at an index >= the capacity and ends with Ok,
\* OutputFull or IllegalBackref; when the next literal or backreference copy
\* does not fit it returns OutputFull.
C4_DecodeBounded ==
    cfg = default =>
        /\ dec.head_index <= Len(dec.output)
        /\ DecDone => dec.result \in {"Ok", "OutputFull", "IllegalBackref"}
        /\ (DecDone /\ Wire.result = "OutputFull") => dec.result = "OutputFull"

\* the bit cursor stays within the input and no input byte past its end is read
C5_Cursor ==
    /\ dec.bit_index <= 8 * Len(dec.input)
    /\ dec.panic # "read_oob"

\* a state that needs more bits than remain goes to NeedMoreData and writes
\* nothing
C5_Starved ==
    (/\ dec.result = "running"
     /\ dec.state \notin Terminal
     /\ dec.bit_index + BitsNeeded(dec.state) > 8 * Len(dec.input))
    => /\ dec'.result = "running"
       /\ dec'.state = "HSDSNeedMoreData"
       /\ dec'.head_index = dec.head_index
       /\ dec'.output = dec.output

\* from NeedMoreData decode returns Ok with exactly the bytes written so far
C5_Return ==
    (dec.result = "running" /\ dec.state = "HSDSNeedMoreData")
    => dec'.result = "Ok" /\ dec'.ret = SubSeq(dec.output, 1, dec.head_index)

\* C5: in every decoder state the bit cursor is <= 8 * len(input) and no input
\* byte at an index >= len(input) is read; a state that needs more bits than
\* remain (also mid-token, also on empty input) goes to NeedMoreData, and decode
\* then returns Ok with exactly the bytes written so far.
C5_BoundedReads == []C5_Cursor /\ [][C5_Starved /\ C5_Return]_vars

\* decode stopped inside a token, after writing, and returned what it had
C5_Witness ==
    /\ cfg = default
    /\ dec.result = "Ok"
    /\ dec.state = "HSDSNeedMoreData"
    /\ Wire.pos < dec.bit_index
    /\ dec.bit_index < 8 * Len(dec.input)
    /\ Len(dec.ret) > 0
    /\ dec.ret = Wire.out

\* C6: decode returns IllegalBackref if and only if the stream holds a fully
\* read backreference token whose distance (field + 1) exceeds the bytes written
\* at that moment, that check coming before the OutputFull check.
C6_IllegalBackrefExact ==
    DecDone => (dec.result = "IllegalBackref" <=> Wire.result = "IllegalBackref")

\* the bits from bit i to the end of s are all zero
ZeroFrom(s, i) == \A k \in i..(8 * Len(s) - 1) : BitAt(s, k) = 0

\* C7: on a stream that is the packing of literal and backreference tokens, each
\* backreference reaching no further back than the bytes produced, followed by
\* fewer than 1 + w + l zero bits, decode into a large enough buffer returns the
\* sequential expansion of the tokens.
C7_DecodeWireFormat ==
    (DecDone /\ Wire.result = "Ok" /\ ZeroFrom(dec.input, Wire.pos))
    => dec.result = "Ok" /\ dec.ret = Wire.out

\* C8: when encode returns Ok its output is the most-significant-bit-first
\* packing of the tokens it chose, distance - 1 in exactly w bits and length - 1
\* in exactly l bits, the unused low bits of the last byte 0, and no byte beyond.
C8_EncodeWireFormat ==
    enc.result = "Ok" =>
        /\ \A i \in 1..Len(tokens) :
              ~tokens[i].lit =>
                  /\ tokens[i].rel \in 1..(2 ^ cfg.window_sz2)
                  /\ tokens[i].len \in 1..(2 ^ cfg.lookahead_sz2)
        /\ enc.ret = Pack(StreamBits(tokens))

\* encode returned a stream with a backreference and a padded last byte
C8_Witness ==
    /\ enc.result = "Ok"
    /\ UsedBackref
    /\ Len(StreamBits(tokens)) % 8 # 0
    /\ enc.ret = Pack(StreamBits(tokens))

\* what the last Config call returned, against the range check 1..16
C9_Calls ==
    /\ last.op = "new" =>
          /\ last.ok <=> (last.arg1 \in 1..16 /\ last.arg2 \in 1..16)
          /\ last.ok => last.ret = [window_sz2 |-> last.arg1, lookahead_sz2 |-> last.arg2]
    /\ last.op = "with_window" => (last.ok <=> last.arg1 \in 1..16)
    /\ last.op = "with_lookahead" => (last.ok <=> last.arg2 \in 1..16)

\* with_window and with_lookahead set their own field and leave the other
C9_OwnField ==
    /\ (last'.op = "with_window" /\ last'.ok) =>
          /\ last'.ret = [window_sz2 |-> last'.arg1, lookahead_sz2 |-> cfg.lookahead_sz2]
          /\ cfg' = last'.ret
    /\ (last'.op = "with_lookahead" /\ last'.ok) =>
          /\ last'.ret = [window_sz2 |-> cfg.window_sz2, lookahead_sz2 |-> last'.arg2]
          /\ cfg' = last'.ret

\* both exponents of the Config are in 1..16
C9_Valid == cfg.window_sz2 \in 1..16 /\ cfg.lookahead_sz2 \in 1..16

\* C9: Config::new(w, l) is Ok exactly when both are in 1..16 and then holds
\* exactly w and l; with_window and with_lookahead make the same range check and
\* change only their own field; every Config reached by default, new,
\* with_window and with_lookahead calls has both exponents in 1..16.
C9_ConfigValid == [](C9_Valid /\ C9_Calls) /\ [][C9_OwnField]_vars

\* a Config away from the default, reached through a with_lookahead call on it
C9_Witness ==
    /\ last.op = "with_lookahead"
    /\ last.ok
    /\ cfg = [window_sz2 |-> 16, lookahead_sz2 |-> 1]

\* C10: with l > 8, the state after BackrefCountMsb has read its l - 8 bits is
\* BackrefCountLsb, so a backreference token is read in the order TagBit,
\* [BackrefIndexMsb,] BackrefIndexLsb, BackrefCountMsb, BackrefCountLsb,
\* YieldBackref.
C10_CountMsbNext ==
    [][(/\ dec.result = "running"
        /\ dec.state = "HSDSBackrefCountMsb"
        /\ dec.bit_index + BitsNeeded(dec.state) <= 8 * Len(dec.input))
       => dec'.state = "HSDSBackrefCountLsb"]_vars

\* the candidates of a match at pos: the window of 2^w positions before it
Candidates(x, pos) == {c \in 0..(pos - 1) : c >= pos - 2 ^ cfg.window_sz2}

\* the length of the common prefix of x[c..] and x[pos..], capped at 2^l and
\* at the end of x
CommonPrefix(x, c, pos) ==
    LET cap == Min(2 ^ cfg.lookahead_sz2, Len(x) - pos)
    IN  CHOOSE k \in 0..cap :
            /\ \A j \in 0..(k - 1) : x[c + j + 1] = x[pos + j + 1]
            /\ k = cap \/ x[c + k + 1] # x[pos + k + 1]

\* the longest common prefix over the candidates, 0 without a candidate
BestLen(x, pos) ==
    IF Candidates(x, pos) = {} THEN 0
    ELSE CHOOSE n \in {CommonPrefix(x, c, pos) : c \in Candidates(x, pos)} :
            \A c \in Candidates(x, pos) : CommonPrefix(x, c, pos) <= n

\* the candidates that attain the longest common prefix
BestCands(x, pos) ==
    {c \in Candidates(x, pos) : CommonPrefix(x, c, pos) = BestLen(x, pos)}

\* C11: for every position pos of the input, search(pos) returns the greatest
\* common-prefix length over the candidates in [max(0, pos - 2^w), pos), capped
\* at min(2^l, len - pos), together with the largest candidate that attains it;
\* without a candidate the length is 0.
C11_MatchSelection ==
    enc.result = "running" =>
        \A pos \in 0..(Len(enc.input) - 1) :
            LET m == search(enc.input, pos)
            IN  /\ m[2] = BestLen(enc.input, pos)
                /\ Candidates(enc.input, pos) # {} =>
                      /\ m[1] \in BestCands(enc.input, pos)
                      /\ \A c \in BestCands(enc.input, pos) : c <= m[1]

\* the encoder stands where several candidates tie, some outside the window
C11_Witness ==
    /\ enc.result = "running"
    /\ enc.pos < Len(enc.input)
    /\ Cardinality(BestCands(enc.input, enc.pos)) >= 2
    /\ BestLen(enc.input, enc.pos) >= 2
    /\ Candidates(enc.input, enc.pos) # 0..(enc.pos - 1)
    /\ search(enc.input, enc.pos)[1] = enc.pos - 1

\* the bits the encoder has emitted: written bytes and pending bits
EmittedBits(e) == 8 * e.bit_index + e.num_bits

\* where token i of ts starts in the input
RECURSIVE TokStart(_, _)
TokStart(ts, i) == IF i <= 1 THEN 0 ELSE TokStart(ts, i - 1) + ts[i - 1].len

\* the decision of one iteration of the encode loop at enc.pos
C12_Step ==
    (enc.result = "running" /\ enc.pos < Len(enc.input) /\ tokens' # tokens) =>
        LET m == BestLen(enc.input, enc.pos)
            t == tokens'[Len(tokens')]
            wide == 1 + cfg.lookahead_sz2 + cfg.window_sz2
            done == enc'.result = "running"
        IN  /\ tokens' = Append(tokens, t)
            /\ m > wide \div 8 =>
                  /\ ~t.lit /\ t.len = m
                  /\ done => enc'.pos = enc.pos + m
                  /\ done => EmittedBits(enc') = EmittedBits(enc) + wide
            /\ ~(m > wide \div 8) =>
                  /\ t.lit /\ t.byte = enc.input[enc.pos + 1]
                  /\ done => enc'.pos = enc.pos + 1
                  /\ done => EmittedBits(enc') = EmittedBits(enc) + 9

\* C12: at every position the encoder emits a backreference and advances by
\* the match length if and only if the best match length is strictly greater
\* than floor((1 + l + w) / 8); otherwise it emits a literal for input[pos] and
\* advances by exactly 1.
C12_EmissionDecision == [][C12_Step]_vars

\* a literal was chosen at a match of exactly threshold bytes, and a
\* backreference at a longer one
C12_Witness ==
    /\ threshold >= 1
    /\ \E i \in 1..Len(tokens) :
          tokens[i].lit /\ BestLen(enc.input, TokStart(tokens, i)) = threshold
    /\ \E i \in 1..Len(tokens) :
          ~tokens[i].lit /\ tokens[i].len = threshold + 1
    /\ enc.result = "Ok"

\* C13: for every valid configuration, w = 16 and l = 16 included, the encoder
\* emits every field value in [0, 2^w - 1] and [0, 2^l - 1] and the decoder
\* rebuilds distances up to 2^w and lengths up to 2^l with no 16-bit overflow:
\* the range check of emit_bits and the decoder's accumulator + 1 never
\* overflow, and the range check never rejects a legal value.
C13_FieldRange ==
    /\ enc.panic \notin {"overflow", "assert"}
    /\ dec.panic # "overflow"
    /\ dec.state = "HSDSYieldBackref" => dec.output_index >= 1 /\ dec.output_count >= 1

\* C14: for every input, valid configuration and output capacity, decode
\* reaches a terminal state (NeedMoreData, OutputFull or IllegalBackref) after
\* finitely many transitions: a call that has ended has ended in one of them.
C14_DecodeTerminates == DecDone => dec.state \in Terminal

\* the cause C14 gives: the bit cursor never decreases, and a transition that
\* leaves it unchanged comes from HSDSYieldBackref or enters a terminal state
C14_CursorStep ==
    (dec.result = "running" /\ dec'.result = "running" /\ dec'.state # dec.state)
    => /\ dec'.bit_index >= dec.bit_index
       /\ dec'.bit_index = dec.bit_index
          => dec.state = "HSDSYieldBackref" \/ dec'.state \in Terminal

C14_CursorVariant == [][C14_CursorStep]_vars

\* one emit_bits(val, bit_cnt) call on e: if it returns Ok, 0..7 bits are
\* pending and written and pending bits together grew by bit_cnt
C15_Call(e, val, bit_cnt) ==
    LET e1 == emit_bits(e, val, bit_cnt)
    IN  e1.result = "running" =>
            /\ e1.num_bits \in 0..7
            /\ EmittedBits(e1) = EmittedBits(e) + bit_cnt

\* every emit_bits call of the loop body at enc.pos, and the state between
\* loop iterations
C15_Pending ==
    enc.result = "running" =>
        /\ enc.num_bits \in 0..7
        /\ EmittedBits(enc) = Len(StreamBits(tokens))
        /\ enc.pos < Len(enc.input) =>
              LET t == encode_choice(enc)
                  e1 == emit_bits(enc, 0, 1)
                  e2 == emit_bits(e1, AsU16(t.rel - 1), cfg.window_sz2)
              IN  IF t.lit THEN C15_Call(enc, BitOr(t.byte, 256), 9)
                  ELSE /\ C15_Call(enc, 0, 1)
                       /\ C15_Call(e1, AsU16(t.rel - 1), cfg.window_sz2)
                       /\ C15_Call(e2, AsU16(t.len - 1), cfg.lookahead_sz2)

\* flush, when encode returns: one byte written if bits were pending, none
\* otherwise, and no bits left pending
C15_Flush ==
    (enc.result = "running" /\ enc'.result = "Ok") =>
        /\ enc'.bit_index = enc.bit_index + (IF enc.num_bits > 0 THEN 1 ELSE 0)
        /\ enc'.num_bits = 0
        /\ \A i \in 1..Len(enc.output) :
              i # enc.bit_index + 1 => enc'.output[i] = enc.output[i]

\* C15: after every emit_bits call that returns Ok the number of pending bits
\* is in 0..7 and 8 * (bytes written) + (pending bits) is the number of bits
\* emitted so far; flush writes at most one byte and leaves 0 pending bits.
C15_PendingBits == []C15_Pending /\ [][C15_Flush]_vars

\* encode returned after a backreference, bytes written by emit_bits and a
\* last partial byte written by flush
C15_Witness ==
    /\ enc.result = "Ok"
    /\ UsedBackref
    /\ Len(StreamBits(tokens)) % 8 # 0
    /\ Len(enc.ret) >= 2
    /\ Len(enc.ret) * 8 > Len(StreamBits(tokens))

\* C16: when decoding the stream encode(x) returned, the zero padding bits of
\* the last byte never complete a backreference token: the decoder never
\* stands in HSDSYieldBackref having read past the bits of the real tokens,
\* and never holds more bytes than the tokens stand for.
C16_PaddingIgnored ==
    dec.result # "idle" =>
        /\ dec.state = "HSDSYieldBackref" => dec.bit_index <= Len(StreamBits(tokens))
        /\ dec.head_index <= Len(enc.input)

\* the backreferences chosen so far stay inside the data before them and
\* inside the input, the tokens tile the input up to pos, and the loop is
\* left with pos at the end of the input
C17_Tiling ==
    enc.result # "idle" =>
        /\ \A i \in 1..Len(tokens) :
              LET t == tokens[i]
                  p == TokStart(tokens, i)
              IN  ~t.lit =>
                      /\ 1 <= t.rel /\ t.rel <= Min(p, 2 ^ cfg.window_sz2)
                      /\ 1 <= t.len
                      /\ t.len <= Min(2 ^ cfg.lookahead_sz2, Len(enc.input) - p)
        /\ enc.pos <= Len(enc.input)
        /\ enc.result = "running" => enc.pos = TokStart(tokens, Len(tokens) + 1)
        /\ enc.result = "Ok" => enc.pos = Len(enc.input)

\* an iteration that returns to the loop has moved pos forward
C17_Advance ==
    (enc.result = "running" /\ enc'.result = "running" /\ enc' # enc)
    => enc'.pos > enc.pos

\* C17: at every backreference emission 1 <= distance <= min(pos, 2^w) and
\* 1 <= length <= min(2^l, len(input) - pos); pos strictly increases at every
\* token and the loop ends with pos exactly len(input), so no backreference
\* points before the start of the data or past the end of the input.
C17_TokensTile == []C17_Tiling /\ [][C17_Advance]_vars

\* encode returned after a backreference at the largest distance the window
\* allows, with older data outside the window
C17_Witness ==
    /\ enc.result = "Ok"
    /\ enc.pos = Len(enc.input)
    /\ \E i \in 1..Len(tokens) :
          /\ ~tokens[i].lit
          /\ tokens[i].rel = 2 ^ cfg.window_sz2
          /\ tokens[i].rel < TokStart(tokens, i)
    /\ \E i \in 1..Len(tokens) :
          /\ ~tokens[i].lit
          /\ tokens[i].len = Len(enc.input) - TokStart(tokens, i)
          /\ tokens[i].len >= 2

\* C18: at every point of the encode loop the number of bits emitted is
\* <= 9 * pos, a backreference being chosen only when its 1 + w + l bits are
\* fewer than 8 * length; so a successful encode returns at most
\* ceil(9 * n / 8) bytes and a buffer of 2 * n + 16 bytes never yields
\* OutputFull.
C18_BoundedExpansion ==
    /\ enc.result = "running" => EmittedBits(enc) <= 9 * enc.pos
    /\ \A i \in 1..Len(tokens) :
          ~tokens[i].lit =>
              1 + cfg.window_sz2 + cfg.lookahead_sz2 < 8 * tokens[i].len
    /\ enc.result = "Ok" =>
          Len(enc.ret) <= (9 * Len(enc.input) + 7) \div 8
    /\ Len(enc.output) = BufSize(Len(enc.input)) => enc.result # "OutputFull"

\* encode returned after the shortest backreference the threshold allows,
\* and after literals at 9 bits each
C18_Witness ==
    /\ enc.result = "Ok"
    /\ Len(enc.output) = BufSize(Len(enc.input))
    /\ \E i \in 1..Len(tokens) :
          /\ ~tokens[i].lit
          /\ tokens[i].len = threshold + 1
          /\ tokens[i].len >= 2
    /\ Cardinality({i \in 1..Len(tokens) : tokens[i].lit}) >= 2

\* a is a prefix of b
IsPrefixOf(a, b) == Len(a) <= Len(b) /\ SubSeq(b, 1, Len(a)) = a

\* decode(p) into a buffer of the capacity of dec, p the first k bytes of the
\* stream of dec
Truncated(k) == DecoderNew(SubSeq(dec.input, 1, k), Zeros(Len(dec.output)))

RECURSIVE Visits(_, _)
\* the run from d goes through the state target
Visits(d, target) ==
    IF d = target THEN TRUE
    ELSE IF d.result # "running" THEN FALSE
    ELSE Visits(decode_iter(d), target)

\* C19: for every stream s and every byte prefix p of s, if decode(s) into a
\* buffer of capacity c returns Ok(y) then decode(p) into a buffer of capacity
\* c returns Ok(y') with y' a prefix of y; and the run on p goes through every
\* state of the run on s that has read no bit beyond p.
C19_TruncationPrefix ==
    \A k \in 0..Len(dec.input) :
        /\ dec.result = "Ok" =>
              LET r == decode_run(Truncated(k))
              IN  r.result = "Ok" /\ IsPrefixOf(r.ret, dec.ret)
        /\ (dec.result = "running" /\ dec.bit_index <= 8 * k) =>
              Visits(Truncated(k), [dec EXCEPT !.input = SubSeq(dec.input, 1, k)])

\* decode returned two bytes or more, and a proper prefix of its stream
\* decodes to fewer bytes, but not to none
C19_Witness ==
    /\ dec.result = "Ok"
    /\ Len(dec.ret) >= 2
    /\ \E k \in 1..(Len(dec.input) - 1) :
          LET r == decode_run(Truncated(k))
          IN  r.result = "Ok" /\ Len(r.ret) >= 1 /\ Len(r.ret) < Len(dec.ret)

=============================================================================
